---- MODULE Spec2Model ----
(***************************************************************************)
(* DataFrameFileProcessor (src/dffp.py): a pandas frame of file records,   *)
(* enriched by two sniffers, narrowed by a boolean FilterResult column.    *)
(* The frame is modelled column by column, with the set of columns that    *)
(* exist: reading a column that does not exist raises KeyError.            *)
(***************************************************************************)
EXTENDS Integers, Sequences, FiniteSets, TLC

\* Bounds of the model.
MaxFiles == 2
MaxDetect == 2

\* Python's None, pandas' missing value, and "the call raised".
None == "<None>"
NaN == "<NaN>"
Raises == "<raises>"
Ok == "ok"

\* str.lower over the strings of the model.
Lower(s) ==
    CASE s = ".CPP" -> ".cpp"
      [] s = ".H" -> ".h"
      [] s = "UTF-8" -> "utf-8"
      [] s = "ASCII" -> "ascii"
      [] s = "TEXT/PLAIN" -> "text/plain"
      [] OTHER -> s

\* os.path.splitext(filename)[1] over the file names of the model.
SplitExt(filename) ==
    CASE filename = "main.cpp" -> ".cpp"
      [] filename = "util.H" -> ".H"
      [] filename = "locked.cpp" -> ".cpp"
      [] filename = "README" -> ""
      [] OTHER -> ""

\* The files a root directory may hold: the name, and what each sniffer does
\* on the file (a label, None for chardet's "undecided", or an exception).
DiskFiles ==
    { [name |-> "main.cpp",   encoding |-> "ascii", magic |-> "text/x-c"],
      [name |-> "util.H",     encoding |-> "UTF-8", magic |-> Raises],
      [name |-> "README",     encoding |-> None,    magic |-> "text/plain"],
      [name |-> "locked.cpp", encoding |-> Raises,  magic |-> Raises] }

\* The listings os.walk may yield.
Listings == UNION { [1..n -> DiskFiles] : n \in 0..MaxFiles }

\* The arguments apply_filters is called with.
Keys == {"extensions", "encodings", "magic", "content_types"}

ListsFor(k) ==
    CASE k = "extensions" -> { <<".CPP", ".h">> }
      [] k = "encodings" -> { <<"utf-8">> }
      [] k = "magic" -> { <<"TEXT/PLAIN">> }
      [] k = "content_types" -> { <<"text/x-c">> }

AllDictLists == UNION { ListsFor(k) : k \in Keys }

DictConds ==
    UNION { { f \in [K -> AllDictLists] : \A k \in K : f[k] \in ListsFor(k) }
            : K \in SUBSET Keys }

ListConds ==
    { <<".CPP", ".h">>, <<".cpp", "UTF-8">>, <<"ascii", "text/plain">>, <<"nomatch">> }

StrConds == { ".H", "utf-8", "TEXT/PLAIN" }

Conditions ==
    { [type |-> "dict", dict |-> f, list |-> <<>>, str |-> ""] : f \in DictConds }
    \cup { [type |-> "list", dict |-> <<>>, list |-> l, str |-> ""] : l \in ListConds }
    \cup { [type |-> "str", dict |-> <<>>, list |-> <<>>, str |-> s] : s \in StrConds }
    \cup { [type |-> "other", dict |-> <<>>, list |-> <<>>, str |-> ""] }

NoConditions == [type |-> "none", dict |-> <<>>, list |-> <<>>, str |-> ""]

VARIABLES
    fs,            \* the listing of parent_directory
    files_df,      \* self.files_df
    stage,         \* "constructed", "populated" or "enriched"
    op,            \* the last public operation called
    conditions,    \* the argument of the last apply_filters call
    raised,        \* Ok, or the exception the last operation raised
    result,        \* what the last get_filtered_files call returned
    steps,         \* the concrete filters the last apply_filters call ran
    detect_calls,  \* per file, how often each sniffer was invoked
    applied,       \* apply_filters was called since construction
    entry_excluded,\* the last apply_filters call found every flag false
    session_live   \* apply_filters returned, and no rebuild since

vars == <<fs, files_df, stage, op, conditions, raised, result, steps,
          detect_calls, applied, entry_excluded, session_live>>

----------------------------------------------------------------------------
\* pandas

BaseColumns == {"Filename", "Path", "FileExtension", "Encoding", "Magic"}

\* pd.DataFrame(columns=[...]) of __init__
EmptyFrame ==
    [columns |-> BaseColumns, float64 |-> {}, n |-> 0,
     Filename |-> <<>>, Path |-> <<>>, FileExtension |-> <<>>,
     Encoding |-> <<>>, Magic |-> <<>>, FilterResult |-> <<>>]

\* pd.DataFrame(records): a frame built from no record has no column.
DataFrame(records) ==
    [columns |-> IF records = <<>> THEN {} ELSE BaseColumns,
     float64 |-> {},
     n |-> Len(records),
     Filename |-> [i \in 1..Len(records) |-> records[i].Filename],
     Path |-> [i \in 1..Len(records) |-> records[i].Path],
     FileExtension |-> [i \in 1..Len(records) |-> records[i].FileExtension],
     Encoding |-> [i \in 1..Len(records) |-> records[i].Encoding],
     Magic |-> [i \in 1..Len(records) |-> records[i].Magic],
     FilterResult |-> <<>>]

\* Series.str.lower(): a missing value stays missing.
StrLower(series) ==
    [i \in 1..Len(series) |-> IF series[i] = None THEN NaN ELSE Lower(series[i])]

\* Series.isin(values)
IsIn(series, values) ==
    [i \in 1..Len(series) |-> \E k \in 1..Len(values) : series[i] = values[k]]

\* set(Series.dropna().str.lower().unique())
Observed(series) ==
    { Lower(series[i]) : i \in { j \in 1..Len(series) : series[j] # None } }

\* [item.lower() for item in values]
LowerAll(values) == [k \in 1..Len(values) |-> Lower(values[k])]

----------------------------------------------------------------------------
\* DataFrameFileProcessor

\* populate_dataframe: one record per file of the walk, in walk order.
populate_dataframe(listing) ==
    DataFrame([i \in 1..Len(listing) |->
                 [Filename |-> listing[i].name,
                  Path |-> <<i, listing[i].name>>,
                  FileExtension |-> SplitExt(listing[i].name),
                  Encoding |-> None,
                  Magic |-> None]])

\* open + chardet.detect on a path: a label, None, or an exception.
EncodingSniffer(listing, file_path) == listing[file_path[1]].encoding

\* magic.from_file on a path: a label or an exception.
MagicSniffer(listing, file_path) == listing[file_path[1]].magic

\* _detect_encoding: any exception becomes None.
detect_encoding(listing, file_path) ==
    LET outcome == EncodingSniffer(listing, file_path)
    IN IF outcome = Raises THEN None ELSE outcome

\* _detect_magic without its try/except.
detect_magic_unguarded(listing, file_path) == MagicSniffer(listing, file_path)

\* _detect_magic: any exception becomes None.
detect_magic(listing, file_path) ==
    LET outcome == MagicSniffer(listing, file_path)
    IN IF outcome = Raises THEN None ELSE outcome

\* analyze_files: detect per row, then assign both columns. An exception
\* leaving a detector would leave the loop before the assignments. A column
\* assigned an empty list has dtype float64 or object, by pandas version.
analyze_files(df, listing, empty_float64) ==
    LET encodings == [i \in 1..df.n |-> detect_encoding(listing, df.Path[i])]
        magics == [i \in 1..df.n |-> detect_magic(listing, df.Path[i])]
    IN IF \E i \in 1..df.n : encodings[i] = Raises \/ magics[i] = Raises
       THEN [df |-> df, raised |-> "Exception"]
       ELSE [df |-> [df EXCEPT !.columns = @ \cup {"Encoding", "Magic"},
                               !.float64 = IF df.n = 0 THEN empty_float64 ELSE {},
                               !.Encoding = encodings,
                               !.Magic = magics],
             raised |-> Ok]

\* _filter_by_extension storing the lower-cased column back into the frame.
filter_by_extension_in_place(cs, extensions) ==
    LET lowered == LowerAll(extensions)
        df == cs.df
    IN IF cs.raised # Ok THEN cs
       ELSE IF "FileExtension" \notin df.columns
       THEN [cs EXCEPT !.raised = "KeyError"]
       ELSE LET mask == IsIn(StrLower(df.FileExtension), lowered)
                after == [i \in 1..df.n |-> df.FilterResult[i] /\ mask[i]]
            IN [cs EXCEPT !.df.FileExtension = StrLower(df.FileExtension),
                          !.df.FilterResult = after,
                          !.steps = Append(@, [filter |-> "extension",
                                               values |-> extensions,
                                               before |-> df.FilterResult,
                                               after |-> after])]

\* _filter_by_extension
filter_by_extension(cs, extensions) ==
    LET lowered == LowerAll(extensions)
        df == cs.df
    IN IF cs.raised # Ok THEN cs
       ELSE IF "FileExtension" \notin df.columns
       THEN [cs EXCEPT !.raised = "KeyError"]
       ELSE LET mask == IsIn(StrLower(df.FileExtension), lowered)
                after == [i \in 1..df.n |-> df.FilterResult[i] /\ mask[i]]
            IN [cs EXCEPT !.df.FilterResult = after,
                          !.steps = Append(@, [filter |-> "extension",
                                               values |-> extensions,
                                               before |-> df.FilterResult,
                                               after |-> after])]

\* _filter_by_encoding comparing the column as stored, not lower-cased.
filter_by_encoding_case_sensitive(cs, encodings) ==
    LET lowered == LowerAll(encodings)
        df == cs.df
    IN IF cs.raised # Ok THEN cs
       ELSE IF "Encoding" \notin df.columns
       THEN [cs EXCEPT !.raised = "KeyError"]
       ELSE IF "Encoding" \in df.float64
       THEN [cs EXCEPT !.raised = "AttributeError"]
       ELSE LET mask == IsIn(df.Encoding, lowered)
                after == [i \in 1..df.n |-> df.FilterResult[i] /\ mask[i]]
            IN [cs EXCEPT !.df.FilterResult = after,
                          !.steps = Append(@, [filter |-> "encoding",
                                               values |-> encodings,
                                               before |-> df.FilterResult,
                                               after |-> after])]

\* _filter_by_encoding
filter_by_encoding(cs, encodings) ==
    LET lowered == LowerAll(encodings)
        df == cs.df
    IN IF cs.raised # Ok THEN cs
       ELSE IF "Encoding" \notin df.columns
       THEN [cs EXCEPT !.raised = "KeyError"]
       ELSE IF "Encoding" \in df.float64
       THEN [cs EXCEPT !.raised = "AttributeError"]
       ELSE LET mask == IsIn(StrLower(df.Encoding), lowered)
                after == [i \in 1..df.n |-> df.FilterResult[i] /\ mask[i]]
            IN [cs EXCEPT !.df.FilterResult = after,
                          !.steps = Append(@, [filter |-> "encoding",
                                               values |-> encodings,
                                               before |-> df.FilterResult,
                                               after |-> after])]

\* _filter_by_magic assigning the mask (=) where the code and-assigns (&=).
filter_by_magic_assign(cs, magic_types) ==
    LET lowered == LowerAll(magic_types)
        df == cs.df
    IN IF cs.raised # Ok THEN cs
       ELSE IF "Magic" \notin df.columns
       THEN [cs EXCEPT !.raised = "KeyError"]
       ELSE IF "Magic" \in df.float64
       THEN [cs EXCEPT !.raised = "AttributeError"]
       ELSE LET mask == IsIn(StrLower(df.Magic), lowered)
            IN [cs EXCEPT !.df.FilterResult = mask,
                          !.steps = Append(@, [filter |-> "magic",
                                               values |-> magic_types,
                                               before |-> df.FilterResult,
                                               after |-> mask])]

\* _filter_by_magic
filter_by_magic(cs, magic_types) ==
    LET lowered == LowerAll(magic_types)
        df == cs.df
    IN IF cs.raised # Ok THEN cs
       ELSE IF "Magic" \notin df.columns
       THEN [cs EXCEPT !.raised = "KeyError"]
       ELSE IF "Magic" \in df.float64
       THEN [cs EXCEPT !.raised = "AttributeError"]
       ELSE LET mask == IsIn(StrLower(df.Magic), lowered)
                after == [i \in 1..df.n |-> df.FilterResult[i] /\ mask[i]]
            IN [cs EXCEPT !.df.FilterResult = after,
                          !.steps = Append(@, [filter |-> "magic",
                                               values |-> magic_types,
                                               before |-> df.FilterResult,
                                               after |-> after])]

\* _infer_and_apply_single_condition trying the encodings before the extensions.
infer_encoding_first(cs, condition_list) ==
    LET condition_set == { Lower(condition_list[k]) : k \in 1..Len(condition_list) }
        df == cs.df
    IN IF "Encoding" \notin df.columns
       THEN [cs EXCEPT !.raised = "KeyError"]
       ELSE IF "Encoding" \in df.float64
       THEN [cs EXCEPT !.raised = "AttributeError"]
       ELSE IF condition_set \cap Observed(df.Encoding) # {}
       THEN filter_by_encoding(cs, condition_list)
       ELSE IF "FileExtension" \notin df.columns
       THEN [cs EXCEPT !.raised = "KeyError"]
       ELSE IF condition_set \cap Observed(df.FileExtension) # {}
       THEN filter_by_extension(cs, condition_list)
       ELSE IF "Magic" \notin df.columns
       THEN [cs EXCEPT !.raised = "KeyError"]
       ELSE IF "Magic" \in df.float64
       THEN [cs EXCEPT !.raised = "AttributeError"]
       ELSE IF condition_set \cap Observed(df.Magic) # {}
       THEN filter_by_magic(cs, condition_list)
       ELSE cs

\* _infer_and_apply_single_condition
infer_and_apply_single_condition(cs, condition_list) ==
    LET condition_set == { Lower(condition_list[k]) : k \in 1..Len(condition_list) }
        df == cs.df
    IN IF "FileExtension" \notin df.columns
       THEN [cs EXCEPT !.raised = "KeyError"]
       ELSE IF condition_set \cap Observed(df.FileExtension) # {}
       THEN filter_by_extension(cs, condition_list)
       ELSE IF "Encoding" \notin df.columns
       THEN [cs EXCEPT !.raised = "KeyError"]
       ELSE IF "Encoding" \in df.float64
       THEN [cs EXCEPT !.raised = "AttributeError"]
       ELSE IF condition_set \cap Observed(df.Encoding) # {}
       THEN filter_by_encoding(cs, condition_list)
       ELSE IF "Magic" \notin df.columns
       THEN [cs EXCEPT !.raised = "KeyError"]
       ELSE IF "Magic" \in df.float64
       THEN [cs EXCEPT !.raised = "AttributeError"]
       ELSE IF condition_set \cap Observed(df.Magic) # {}
       THEN filter_by_magic(cs, condition_list)
       ELSE cs

\* self.files_df[self.filter_column] = True, skipped when the column exists.
reset_only_if_absent(df) ==
    IF "FilterResult" \in df.columns THEN df
    ELSE [df EXCEPT !.columns = @ \cup {"FilterResult"},
                    !.FilterResult = [i \in 1..df.n |-> TRUE]]

\* self.files_df[self.filter_column] = True
reset_filter_column(df) ==
    [df EXCEPT !.columns = @ \cup {"FilterResult"},
               !.FilterResult = [i \in 1..df.n |-> TRUE]]

\* The mapping branch of apply_filters with elif between the keys.
apply_first_key_only(cs, d) ==
    IF "extensions" \in DOMAIN d THEN filter_by_extension(cs, d["extensions"])
    ELSE IF "encodings" \in DOMAIN d THEN filter_by_encoding(cs, d["encodings"])
    ELSE IF "magic" \in DOMAIN d THEN filter_by_magic(cs, d["magic"])
    ELSE cs

\* The mapping branch of apply_filters: every key present, in this order.
apply_dict_conditions(cs, d) ==
    LET e == IF "extensions" \in DOMAIN d
             THEN filter_by_extension(cs, d["extensions"]) ELSE cs
        g == IF "encodings" \in DOMAIN d
             THEN filter_by_encoding(e, d["encodings"]) ELSE e
    IN IF "magic" \in DOMAIN d THEN filter_by_magic(g, d["magic"]) ELSE g

\* apply_filters on the frame df: the frame, the exception and the filters run.
apply_filters(df, c) ==
    LET cs == [df |-> reset_filter_column(df), raised |-> Ok, steps |-> <<>>]
    IN CASE c.type = "dict" -> apply_dict_conditions(cs, c.dict)
         [] c.type = "list" -> infer_and_apply_single_condition(cs, c.list)
         [] c.type = "str" -> infer_and_apply_single_condition(cs, <<c.str>>)
         [] OTHER -> cs

\* get_filtered_files: the paths of the rows the boolean column selects.
get_filtered_files(df) ==
    IF "FilterResult" \notin df.columns \/ "Path" \notin df.columns
    THEN [raised |-> "KeyError", result |-> <<>>]
    ELSE LET RECURSIVE Take(_)
             Take(i) == IF i > df.n THEN <<>>
                        ELSE IF df.FilterResult[i] THEN <<df.Path[i]>> \o Take(i + 1)
                        ELSE Take(i + 1)
         IN [raised |-> Ok, result |-> Take(1)]

----------------------------------------------------------------------------
\* The caller: any sequence of the public operations.

Init ==
    /\ fs \in Listings
    /\ files_df = EmptyFrame
    /\ stage = "constructed"
    /\ op = "__init__"
    /\ conditions = NoConditions
    /\ raised = Ok
    /\ result = <<>>
    /\ steps = <<>>
    /\ detect_calls = [i \in 1..Len(fs) |-> [encoding |-> 0, magic |-> 0]]
    /\ applied = FALSE
    /\ entry_excluded = FALSE
    /\ session_live = FALSE

PopulateDataframe ==
    /\ files_df' = populate_dataframe(fs)
    /\ stage' = "populated"
    /\ op' = "populate_dataframe"
    /\ conditions' = NoConditions
    /\ raised' = Ok
    /\ result' = <<>>
    /\ steps' = <<>>
    /\ entry_excluded' = FALSE
    /\ session_live' = FALSE
    /\ UNCHANGED <<fs, detect_calls, applied>>

AnalyzeFiles ==
    /\ \A i \in 1..files_df.n : detect_calls[files_df.Path[i][1]].encoding < MaxDetect
    /\ \E empty_float64 \in {{}, {"Encoding", "Magic"}} :
         LET r == analyze_files(files_df, fs, empty_float64)
         IN /\ files_df' = r.df
            /\ raised' = r.raised
    /\ detect_calls' =
         [i \in 1..Len(fs) |->
            IF \E j \in 1..files_df.n : files_df.Path[j][1] = i
            THEN [encoding |-> detect_calls[i].encoding + 1,
                  magic |-> detect_calls[i].magic + 1]
            ELSE detect_calls[i]]
    /\ stage' = IF stage = "constructed" THEN "constructed" ELSE "enriched"
    /\ op' = "analyze_files"
    /\ conditions' = NoConditions
    /\ result' = <<>>
    /\ steps' = <<>>
    /\ entry_excluded' = FALSE
    /\ session_live' = FALSE
    /\ UNCHANGED <<fs, applied>>

ApplyFilters ==
    \E c \in Conditions :
      LET r == apply_filters(files_df, c)
      IN /\ files_df' = r.df
         /\ raised' = r.raised
         /\ steps' = r.steps
         /\ op' = "apply_filters"
         /\ conditions' = c
         /\ result' = <<>>
         /\ applied' = TRUE
         /\ entry_excluded' = /\ "FilterResult" \in files_df.columns
                              /\ files_df.n > 0
                              /\ \A i \in 1..files_df.n : ~files_df.FilterResult[i]
         /\ session_live' = (r.raised = Ok)
         /\ UNCHANGED <<fs, stage, detect_calls>>

GetFilteredFiles ==
    LET r == get_filtered_files(files_df)
    IN /\ raised' = r.raised
       /\ result' = r.result
       /\ op' = "get_filtered_files"
       /\ UNCHANGED <<fs, files_df, stage, conditions, steps, detect_calls,
                      applied, entry_excluded, session_live>>

Next ==
    \/ PopulateDataframe
    \/ AnalyzeFiles
    \/ ApplyFilters
    \/ GetFilteredFiles

Spec == Init /\ [][Next]_vars

----------------------------------------------------------------------------
\* Properties

Rows == 1..files_df.n

\* The frame as it is before any filtering session.
Fresh(df) == [df EXCEPT !.columns = @ \ {"FilterResult"}, !.FilterResult = <<>>]

\* A field matches a value list: not null, and equal to a value up to case.
Matches(field, values) ==
    /\ field # None
    /\ \E k \in 1..Len(values) : Lower(field) = Lower(values[k])

\* The column a category is about.
FieldOf(key) ==
    CASE key = "extensions" -> files_df.FileExtension
      [] key = "encodings" -> files_df.Encoding
      [] key \in {"magic", "content_types"} -> files_df.Magic

ColumnOf(filter) ==
    CASE filter = "extension" -> files_df.FileExtension
      [] filter = "encoding" -> files_df.Encoding
      [] filter = "magic" -> files_df.Magic

\* Row i satisfies every category of ks the mapping supplies.
PassesAll(i, ks) ==
    \A k \in ks \cap DOMAIN conditions.dict : Matches(FieldOf(k)[i], conditions.dict[k])

Returned == { result[k] : k \in 1..Len(result) }

\* The paths of the flagged rows, in frame order.
FlaggedPaths ==
    LET idx == SelectSeq([i \in Rows |-> i], LAMBDA i : files_df.FilterResult[i])
    IN [k \in 1..Len(idx) |-> files_df.Path[idx[k]]]

\* The values of an unlabeled condition, and what they hit.
Unlabeled == conditions.type \in {"list", "str"}
Values == IF conditions.type = "str" THEN <<conditions.str>> ELSE conditions.list
LowerValues == { Lower(Values[k]) : k \in 1..Len(Values) }
Hits(column) ==
    \E i \in 1..Len(column) : column[i] # None /\ Lower(column[i]) \in LowerValues

\* The category the fixed precedence picks.
PickedKey ==
    IF Hits(files_df.FileExtension) THEN "extensions"
    ELSE IF Hits(files_df.Encoding) THEN "encodings"
    ELSE IF Hits(files_df.Magic) THEN "magic"
    ELSE "none"

Labeled(key, values) ==
    [type |-> "dict", dict |-> [k \in {key} |-> values], list |-> <<>>, str |-> ""]

\* C1: on a populated and enriched catalog, get_filtered_files() before any
\* apply_filters call does not raise and returns every path.
C1_GetBeforeApplyReturnsAll ==
    (op = "get_filtered_files" /\ ~applied /\ stage = "enriched")
        => (raised = Ok /\ result = files_df.Path)

\* C2 as stated: with a mapping over extensions, encodings and content_types,
\* a row is flagged after the call iff it matches every supplied category,
\* and get_filtered_files() returns exactly those rows.
C2_ContentTypesKeyApplied ==
    LET ks == {"extensions", "encodings", "content_types"}
    IN (conditions.type = "dict" /\ DOMAIN conditions.dict \subseteq ks /\ raised = Ok)
         => /\ op = "apply_filters" =>
                 \A i \in Rows : files_df.FilterResult[i] <=> PassesAll(i, ks)
            /\ (op = "get_filtered_files" /\ session_live) =>
                 \A i \in Rows : files_df.Path[i] \in Returned <=> PassesAll(i, ks)

\* C2 amended: with a mapping, the keys extensions, encodings and magic are
\* applied and AND-combined (any other key is ignored): a row is flagged
\* after the call iff it matches every supplied one of these categories, and
\* get_filtered_files() returns exactly those rows.
C2_MappingAndCombined ==
    LET ks == {"extensions", "encodings", "magic"}
    IN (conditions.type = "dict" /\ raised = Ok)
         => /\ op = "apply_filters" =>
                 \A i \in Rows : files_df.FilterResult[i] <=> PassesAll(i, ks)
            /\ (op = "get_filtered_files" /\ session_live) =>
                 \A i \in Rows : files_df.Path[i] \in Returned <=> PassesAll(i, ks)

\* A row matching only one of two supplied categories is left out, while
\* another row is returned.
C2_Witness ==
    /\ op = "get_filtered_files" /\ session_live /\ raised = Ok
    /\ conditions.type = "dict"
    /\ {"extensions", "encodings"} \subseteq DOMAIN conditions.dict
    /\ \E i \in Rows :
         /\ Matches(files_df.FileExtension[i], conditions.dict["extensions"])
         /\ ~Matches(files_df.Encoding[i], conditions.dict["encodings"])
         /\ files_df.Path[i] \notin Returned
    /\ Returned # {}

\* C3: whatever calls came before, after apply_filters(c) the frame, the
\* outcome and what get_filtered_files() returns are those of apply_filters(c)
\* on the catalog with no filter column.
C3_FreshSession ==
    LET r == apply_filters(Fresh(files_df), conditions)
    IN /\ op = "apply_filters" => (files_df = r.df /\ raised = r.raised)
       /\ (op = "get_filtered_files" /\ session_live) =>
            (raised = get_filtered_files(r.df).raised
             /\ result = get_filtered_files(r.df).result)

\* A call that found every row excluded leaves a row flagged.
C3_Witness ==
    /\ op = "apply_filters" /\ entry_excluded /\ raised = Ok
    /\ steps # <<>>
    /\ \E i \in Rows : files_df.FilterResult[i]
    /\ \E i \in Rows : ~files_df.FilterResult[i]

\* C4: an unlabeled list or string whose values hit a category leaves the
\* frame and the outcome of the labeled call on the one category picked by
\* the precedence extension, then encoding, then content type.
C4_InferenceIsLabeledCall ==
    (op = "apply_filters" /\ Unlabeled /\ PickedKey # "none")
        => LET r == apply_filters(Fresh(files_df), Labeled(PickedKey, Values))
           IN files_df = r.df /\ raised = r.raised

\* Values that hit both the extensions and the encodings, the extension
\* filter giving another result than the encoding filter would.
C4_Witness ==
    /\ op = "apply_filters" /\ Unlabeled /\ raised = Ok
    /\ Hits(files_df.FileExtension) /\ Hits(files_df.Encoding)
    /\ \E i \in Rows :
         files_df.FilterResult[i] /\ ~Matches(files_df.Encoding[i], Values)
    /\ \E i \in Rows :
         ~files_df.FilterResult[i] /\ Matches(files_df.Encoding[i], Values)

\* C5: on every catalog, also one of zero files, an uninferable or malformed
\* condition does not raise, runs no filter and leaves every row flagged, and
\* get_filtered_files() then returns every path.
C5_UninferableLeavesAllPassing ==
    (stage # "constructed"
       /\ (conditions.type = "other" \/ (Unlabeled /\ PickedKey = "none")))
        => /\ op = "apply_filters" =>
                /\ raised = Ok
                /\ steps = <<>>
                /\ "FilterResult" \in files_df.columns
                /\ \A i \in Rows : files_df.FilterResult[i]
           /\ op = "get_filtered_files" =>
                (raised = Ok /\ result = files_df.Path)

\* C6: each concrete filter flags a row iff it was flagged and its field is
\* not null and equals a supplied value up to case.
C6_CaseInsensitiveNullFails ==
    \A s \in 1..Len(steps) : \A i \in Rows :
        steps[s].after[i] <=>
            (steps[s].before[i] /\ Matches(ColumnOf(steps[s].filter)[i], steps[s].values))

\* An encoding filter kept a row whose encoding differs in case from every
\* supplied value, and dropped a row whose encoding is null.
C6_Witness ==
    \E s \in 1..Len(steps) :
        /\ steps[s].filter = "encoding"
        /\ \E i \in Rows :
             /\ steps[s].after[i]
             /\ \A k \in 1..Len(steps[s].values) : files_df.Encoding[i] # steps[s].values[k]
        /\ \E i \in Rows :
             files_df.Encoding[i] = None /\ steps[s].before[i] /\ ~steps[s].after[i]

\* C7: after an apply_filters call, get_filtered_files() does not raise and
\* returns the paths of the flagged rows, each once, in catalog order, also
\* when the catalog has no record.
C7_ReturnsFlaggedPaths ==
    (op = "get_filtered_files" /\ session_live)
        => (raised = Ok /\ result = FlaggedPaths)

\* C8 as stated: in every sequence of the public operations, once the catalog
\* is enriched no later operation writes or clears an enrichment field or
\* runs a detection again.
C8_WrittenOnce ==
    [][stage = "enriched" =>
          /\ files_df'.Encoding = files_df.Encoding
          /\ files_df'.Magic = files_df.Magic
          /\ detect_calls' = detect_calls]_vars

\* C8 amended: apply_filters and get_filtered_files never write an identity
\* or enrichment field, never add or remove a record and never run a
\* detection, and one analyze_files call runs each sniffer exactly once per
\* record of the catalog; so each field is written once in a run that calls
\* populate_dataframe and analyze_files once. Nothing stops a caller from
\* calling either again, which rebuilds or re-detects.
C8_FiltersNeverEnrich ==
    [][/\ op' \in {"apply_filters", "get_filtered_files"} =>
            /\ files_df'.n = files_df.n
            /\ files_df'.Filename = files_df.Filename
            /\ files_df'.Path = files_df.Path
            /\ files_df'.FileExtension = files_df.FileExtension
            /\ files_df'.Encoding = files_df.Encoding
            /\ files_df'.Magic = files_df.Magic
            /\ detect_calls' = detect_calls
       /\ op' = "analyze_files" =>
            \A i \in Rows :
              LET f == files_df.Path[i][1]
              IN /\ detect_calls'[f].encoding = detect_calls[f].encoding + 1
                 /\ detect_calls'[f].magic = detect_calls[f].magic + 1]_vars

\* A filter has excluded a row of an enriched catalog whose extension has an
\* upper-case letter and whose encoding was detected once.
C8_Witness ==
    /\ op = "apply_filters" /\ stage = "enriched" /\ raised = Ok
    /\ steps # <<>> /\ steps[1].filter = "extension"
    /\ \E i \in Rows :
         /\ files_df.FileExtension[i] = ".H"
         /\ files_df.Encoding[i] # None
         /\ detect_calls[files_df.Path[i][1]].encoding = 1
    /\ \E i \in Rows : ~files_df.FilterResult[i]

\* C9: analyze_files never raises; a field whose sniffer failed is null, any
\* other field is what the sniffer returned, and every record has both.
C9_EnrichmentIsolated ==
    op = "analyze_files" =>
        /\ raised = Ok
        /\ {"Encoding", "Magic"} \subseteq files_df.columns
        /\ Len(files_df.Encoding) = files_df.n
        /\ Len(files_df.Magic) = files_df.n
        /\ \A i \in Rows :
             LET f == fs[files_df.Path[i][1]]
             IN /\ files_df.Encoding[i] =
                     (IF f.encoding = Raises THEN None ELSE f.encoding)
                /\ files_df.Magic[i] = (IF f.magic = Raises THEN None ELSE f.magic)

\* Both sniffers failed on one file, one failed on another, and the fields
\* that were detected are set.
C9_Witness ==
    /\ op = "analyze_files" /\ raised = Ok
    /\ \E i, j \in Rows :
         /\ fs[files_df.Path[i][1]].encoding = Raises
         /\ fs[files_df.Path[i][1]].magic = Raises
         /\ files_df.Encoding[i] = None /\ files_df.Magic[i] = None
         /\ fs[files_df.Path[j][1]].magic = Raises
         /\ files_df.Encoding[j] \notin {None, Raises}

\* C10: within one apply_filters call the flags start all true and each
\* concrete filter only narrows them: no false flag becomes true, and no
\* record is added or removed.
C10_NarrowsWithinCall ==
    /\ \A s \in 1..Len(steps) :
         /\ Len(steps[s].before) = files_df.n
         /\ Len(steps[s].after) = files_df.n
         /\ \A i \in Rows : steps[s].after[i] => steps[s].before[i]
         /\ steps[s].before =
              (IF s = 1 THEN [i \in Rows |-> TRUE] ELSE steps[s - 1].after)
    /\ (op = "apply_filters" /\ raised = Ok) =>
         files_df.FilterResult =
           (IF steps = <<>> THEN [i \in Rows |-> TRUE] ELSE steps[Len(steps)].after)

\* Two filters ran; the second met a row the first excluded and that matches
\* it, and excluded a row the first had kept.
C10_Witness ==
    /\ op = "apply_filters" /\ raised = Ok
    /\ Len(steps) >= 2
    /\ \E i \in Rows :
         /\ ~steps[2].before[i]
         /\ Matches(ColumnOf(steps[2].filter)[i], steps[2].values)
    /\ \E i \in Rows : steps[2].before[i] /\ ~steps[2].after[i]

====
